---- MODULE Spec2Model ----
(***************************************************************************)
(* Model of include/tins/memory_helpers.h: the bounds-checked cursors      *)
(* Tins::Memory::InputMemoryStream (ReadCursor) and OutputMemoryStream     *)
(* (WriteCursor) over a caller-owned byte buffer.                          *)
(*                                                                         *)
(* Memory is the array mem.  The caller's buffer is mem[0 .. total_sz-1];  *)
(* the bytes mem[total_sz .. MemLen-1] are the memory that follows it (a   *)
(* guard zone).  A pointer is its offset from the start of the buffer.     *)
(* A byte is a number in 0..255, a scalar is its object representation (a  *)
(* sequence of sizeof(T) bytes), which is what memcpy moves.               *)
(*                                                                         *)
(* A 64-bit length (what std::distance returns on an LP64 build) is the    *)
(* pair of its 32-bit words [hi, lo], value hi * 2^32 + lo; converting it  *)
(* to uint32_t keeps lo.                                                   *)
(***************************************************************************)
EXTENDS Integers, Sequences, FiniteSets, TLC

\* ------------------------------------------------------------ bounds
\* Longest buffer handed to a cursor.
MaxLen == 16
\* Bytes of memory tracked after the longest buffer.
Guard == 2
\* Largest small byte count passed to skip, read(void*, n), write(ptr, n), fill.
MaxCount == 3
\* Successful skips, writes and fills made on one WriteCursor.
MaxCalls == 2

MemLen == MaxLen + Guard

\* ------------------------------------------------------------ program constants
IPv4Size == 4
IPv6Size == 16
HWSize == 6
ScalarSizes == {1, 2, 4, 8}


VARIABLES
    kind,       \* which class the cursor is: "InputMemoryStream" or "OutputMemoryStream"
    total_sz,   \* the length the cursor was constructed with
    mem,        \* the memory: the buffer, then the guard zone
    buffer_,    \* the cursor's buffer_ member, as an offset from the buffer's start
    size_,      \* the cursor's size_ member
    last,       \* the last call: its name, requested size, outcome and return value
    resized,    \* history: size(new_size) has been called on this cursor
    ncalls,     \* history: number of successful skips, writes and fills on a WriteCursor
    pc,         \* position of the write-then-read-back program ("-" when not running it)
    sent,       \* history: the value the write-then-read-back program wrote
    par,        \* the two-thread program: two cursors over adjacent regions of mem
    loop        \* the record-parsing loop: the record width and the iterations begun

vars == <<kind, total_sz, mem, buffer_, size_, last, resized, ncalls, pc, sent, par, loop>>

\* ------------------------------------------------------------ values
\* A 64-bit length as its two 32-bit words.
Len64(h, l) == [hi |-> h, lo |-> l]
\* Conversion of a 64-bit length to uint32_t (line 140: const uint32_t length = ...).
ToUint32(d) == d.lo
\* d > n for a 64-bit length d and a 32-bit count n.
Exceeds(d, n) == d.hi > 0 \/ d.lo > n
IsZero(d) == d.hi = 0 /\ d.lo = 0

\* The object representation of a value: w bytes, all different, starting at b.
Bytes(b, w) == [k \in 1..w |-> (b + 37 * (k - 1)) % 256]

Reverse(s) == [k \in 1..Len(s) |-> s[Len(s) + 1 - k]]

BoolRet(b) == IF b THEN <<1>> ELSE <<0>>

\* The cursor as a record of its two members.
Cursor(p, n) == [buffer_ |-> p, size_ |-> n]
Cur == Cursor(buffer_, size_)

\* The outcome of a call: the cursor and memory after it, whether it threw,
\* what it returned, and whether it touched a byte outside [0, L).
Outcome(c, m, st, r, o) == [c |-> c, mem |-> m, status |-> st, ret |-> r, oob |-> o]

\* An access of d bytes at offset p leaves the buffer [0, L).
Outside(p, d, L) == d.hi > 0 \/ (d.lo > 0 /\ p + d.lo > L)

\* ------------------------------------------------------------ copy helpers
\* read_data: memcpy(output_buffer, buffer, size); the bytes copied out.
read_data(m, p, size) == [k \in 1..size |-> m[p + k - 1]]

\* read_value delivering the bytes in the opposite order (a byte-order
\* conversion on the way out).
read_value_swapped(m, p, w) == [k \in 1..w |-> m[p + w - k]]

\* read_value<T>: memcpy(&value, buffer, sizeof(value)); the value's bytes.
read_value(m, p, w) == [k \in 1..w |-> m[p + k - 1]]

\* write_value storing the value's bytes in the opposite order (a byte-order
\* conversion on the way in).
write_value_swapped(m, p, value) ==
    [i \in DOMAIN m |->
        IF i >= p /\ i < p + Len(value) THEN value[Len(value) - (i - p)] ELSE m[i]]

\* write_value<T>: memcpy(buffer, &value, sizeof(value)); the memory after it.
write_value(m, p, value) ==
    [i \in DOMAIN m |-> IF i >= p /\ i < p + Len(value) THEN value[i - p + 1] ELSE m[i]]

\* The range copied back to front (std::reverse_copy for std::copy).
copy_range_reversed(m, p, elems) ==
    [i \in DOMAIN m |->
        IF i >= p /\ i < p + Len(elems) THEN elems[Len(elems) - (i - p)] ELSE m[i]]

\* std::copy(start, end, buffer_): every element of the range is stored, in
\* order, from p on.  elems holds the elements that land in tracked memory.
copy_range(m, p, elems) ==
    [i \in DOMAIN m |-> IF i >= p /\ i < p + Len(elems) THEN elems[i - p + 1] ELSE m[i]]

\* std::fill stopping one byte early (buffer_ + size - 1 as the end).
fill_range_short(m, p, size, value) ==
    [i \in DOMAIN m |-> IF i >= p /\ i < p + size - 1 THEN value ELSE m[i]]

\* std::fill(buffer_, buffer_ + size, value).
fill_range(m, p, size, value) ==
    [i \in DOMAIN m |-> IF i >= p /\ i < p + size THEN value ELSE m[i]]

\* ------------------------------------------------------------ address types
\* IPv4Address(uint32_t): the address keeps the integer converted from network
\* to host byte order (a byte swap on a little-endian host).
IPv4FromUint32(value) == Reverse(value)
\* static_cast<uint32_t>(address): back to network byte order.
IPv4ToUint32(address) == Reverse(address)
\* IPv6Address(const uint8_t*) and HWAddress<n>(const uint8_t*): the address is
\* the address_size bytes at the pointer.
AddressFromPointer(m, p, n) == [k \in 1..n |-> m[p + k - 1]]
\* address.begin() .. address.end(): the address's bytes, in order.
AddressRange(address) == address

\* ------------------------------------------------------------ InputMemoryStream
\* The constructor: buffer_(buffer), size_(total_sz).
InputMemoryStream(buffer, total) == Cursor(buffer, total)

\* skip(size): buffer_ += size; size_ -= size.  No check; every call in this
\* model has size <= size_, so the unsigned subtraction does not wrap.
in_skip(c, size) == Cursor(c.buffer_ + size, c.size_ - size)

\* can_read with > for >=.
can_read_strict(c, byte_count) == c.size_ > byte_count

\* can_read allowing one byte more than remains.
can_read_lenient(c, byte_count) == c.size_ + 1 >= byte_count

can_read(c, byte_count) == c.size_ >= byte_count

in_pointer(c) == c.buffer_

in_size(c) == c.size_

\* size(new_size) that assigns nothing.
set_size_ignored(c, new_size) == Cursor(c.buffer_, c.size_)
set_size(c, new_size) == Cursor(c.buffer_, new_size)

\* operator bool that is also true of a cursor with nothing left.
to_bool_nonnegative(c) == c.size_ >= 0
to_bool(c) == c.size_ > 0

\* A throw: the cursor and the memory are as they were.
\* A throw that also gives up the bytes that remain.
Throw_exhausting(c, m, what) == Outcome(Cursor(c.buffer_, 0), m, what, <<>>, FALSE)
Throw(c, m, what) == Outcome(c, m, what, <<>>, FALSE)

\* read(T& value), sizeof(value) = w.
read(c, m, w, L) ==
    IF ~can_read(c, w)
    THEN Throw(c, m, "malformed_packet")
    ELSE Outcome(in_skip(c, w), m, "ok", read_value(m, c.buffer_, w),
                 Outside(c.buffer_, Len64(0, w), L))

\* T read(): T output; read(output); return output.
readT(c, m, w, L) == read(c, m, w, L)

\* read(IPv4Address&): address = IPv4Address(read<uint32_t>()).
read_ipv4(c, m, L) ==
    LET r == readT(c, m, IPv4Size, L)
    IN  IF r.status = "ok"
        THEN Outcome(r.c, r.mem, "ok", IPv4FromUint32(r.ret), r.oob)
        ELSE r

\* read(IPv6Address&) and read(HWAddress<n>&), n the address_size.
read_address(c, m, n, L) ==
    IF ~can_read(c, n)
    THEN Throw(c, m, "malformed_packet")
    ELSE Outcome(in_skip(c, n), m, "ok", AddressFromPointer(m, in_pointer(c), n),
                 Outside(c.buffer_, Len64(0, n), L))

read_ipv6(c, m, L) == read_address(c, m, IPv6Size, L)

read_hw(c, m, L) == read_address(c, m, HWSize, L)

\* read(void* output_buffer, uint32_t output_buffer_size).
read_bulk(c, m, n, L) ==
    IF ~can_read(c, n)
    THEN Throw(c, m, "malformed_packet")
    ELSE Outcome(in_skip(c, n), m, "ok", read_data(m, c.buffer_, n),
                 Outside(c.buffer_, Len64(0, n), L))

\* ------------------------------------------------------------ OutputMemoryStream
OutputMemoryStream(buffer, total) == Cursor(buffer, total)

\* skip that advances the pointer and forgets the count.
out_skip_keeps_size(c, size) == Cursor(c.buffer_ + size, c.size_)

out_skip(c, size) == Cursor(c.buffer_ + size, c.size_ - size)

out_pointer(c) == c.buffer_

out_size(c) == c.size_

\* write(const T&) without its skip: the value is stored, the cursor stays.
write_keeps_position(c, m, value, L) ==
    IF c.size_ < Len(value)
    THEN Throw(c, m, "serialization_error")
    ELSE Outcome(c, write_value(m, c.buffer_, value), "ok", <<>>,
                 Outside(c.buffer_, Len64(0, Len(value)), L))

\* write(const T& value): value is the sizeof(value) bytes of the object.
write(c, m, value, L) ==
    IF c.size_ < Len(value)
    THEN Throw(c, m, "serialization_error")
    ELSE Outcome(out_skip(c, Len(value)), write_value(m, c.buffer_, value), "ok", <<>>,
                 Outside(c.buffer_, Len64(0, Len(value)), L))

\* write(ForwardIterator start, ForwardIterator end): d = std::distance(start, end)
\* as a 64-bit length, elems the elements of the range.
write_range(c, m, d, elems, L) ==
    LET length == ToUint32(d)
    IN  IF c.size_ < length
        THEN Throw(c, m, "serialization_error")
        ELSE Outcome(out_skip(c, length), copy_range(m, c.buffer_, elems), "ok", <<>>,
                     Outside(c.buffer_, d, L))

\* write(const uint8_t* ptr, uint32_t length): write(ptr, ptr + length).
write_ptr(c, m, elems, L) == write_range(c, m, Len64(0, Len(elems)), elems, L)

\* write(const IPv4Address&): write(static_cast<uint32_t>(address)).
write_ipv4(c, m, address, L) == write(c, m, IPv4ToUint32(address), L)

\* write(const IPv6Address&), write(const HWAddress<n>&):
\* write(address.begin(), address.end()).
write_address(c, m, address, L) ==
    write_range(c, m, Len64(0, Len(address)), AddressRange(address), L)

\* fill(uint32_t size, uint8_t value).
fill(c, m, size, value, L) ==
    IF c.size_ < size
    THEN Throw(c, m, "serialization_error")
    ELSE Outcome(out_skip(c, size), fill_range(m, c.buffer_, size, value), "ok", <<>>,
                 Outside(c.buffer_, Len64(0, size), L))

\* ------------------------------------------------------------ the state machine
Input == "InputMemoryStream"
Output == "OutputMemoryStream"

\* The bytes the caller's memory holds at construction, all different.
DataMem == [i \in 0..(MemLen - 1) |-> (160 + 7 * i) % 256]

\* Payloads of the writes: the first byte of the value written.
Bases == {200}
FillValues == {255}

Call(op, d, st, r, o) == [op |-> op, n |-> d, status |-> st, ret |-> r, oob |-> o]
NoCall == Call("construct", Len64(0, 0), "ok", <<>>, FALSE)
Sent(op, v, at, r) ==
    [op |-> op, value |-> v, at |-> at, adv |-> r.c.buffer_ - at, status |-> r.status]
NoSent == [op |-> "none", value |-> <<>>, at |-> 0, adv |-> 0, status |-> "ok"]

\* No two-thread program and no loop is running.
NoPar == <<>>
NoLoop == [w |-> 0, iters |-> 0]

\* The elements of a range of d bytes that land in tracked memory.
RangeElems(d, b) == Bytes(b, IF d.hi > 0 THEN MemLen ELSE d.lo)

\* The buffer lengths tried: empty, short, one hardware address, the longest.
BufLens == {0, MaxCount, HWSize, MaxLen}

Init ==
    /\ kind \in {Input, Output}
    /\ total_sz \in BufLens
    /\ mem = DataMem
    /\ buffer_ = (IF kind = Input THEN InputMemoryStream(0, total_sz)
                                  ELSE OutputMemoryStream(0, total_sz)).buffer_
    /\ size_ = (IF kind = Input THEN InputMemoryStream(0, total_sz)
                                ELSE OutputMemoryStream(0, total_sz)).size_
    /\ last = NoCall
    /\ resized = FALSE
    /\ ncalls = 0
    /\ pc = "-"
    /\ sent = NoSent
    /\ par = NoPar
    /\ loop = NoLoop

\* The state after a call with outcome r.
Apply(op, d, r) ==
    /\ buffer_' = r.c.buffer_
    /\ size_' = r.c.size_
    /\ mem' = r.mem
    /\ last' = Call(op, d, r.status, r.ret, r.oob)

\* An observer's call: the members and the memory are not assigned.
Observe(op, d, r) ==
    /\ last' = Call(op, d, "ok", r, FALSE)
    /\ UNCHANGED <<buffer_, size_, mem>>

Frame == UNCHANGED <<kind, total_sz, resized, ncalls, pc, sent, par, loop>>

Reading == kind = Input /\ pc = "-"
Writing == kind = Output /\ pc = "-"

\* A successful skip, write or fill uses one unit of the WriteCursor's budget.
Budget(r) ==
    /\ r.status = "ok" => ncalls < MaxCalls
    /\ ncalls' = IF r.status = "ok" THEN ncalls + 1 ELSE ncalls

\* The sizes the calls are tried with.
Counts == 0..MaxCount
\* can_read is tried with the small counts, the remaining count, one more, and
\* a count no buffer holds.
Probes == Counts \cup {size_, size_ + 1, MaxLen + 1}
\* size(new_size) is tried with the small counts and one more than remains.
NewSizes == Counts \cup {size_ + 1}
\* Range lengths: short ones, and ones of 2^32 bytes and more.
RangeLens == {Len64(h, l) : h \in {0, 1}, l \in Counts}

\* ---- InputMemoryStream
\* skip(size), called as its contract requires: size <= remaining.
InSkip(n) ==
    /\ Reading
    /\ n <= size_
    /\ Apply("skip", Len64(0, n), Outcome(in_skip(Cur, n), mem, "ok", <<>>, FALSE))
    /\ Frame

CanRead(n) ==
    /\ Reading
    /\ n \in Probes
    /\ Observe("can_read", Len64(0, n), BoolRet(can_read(Cur, n)))
    /\ Frame

ReadRef(w) ==
    /\ Reading
    /\ Apply("read", Len64(0, w), read(Cur, mem, w, total_sz))
    /\ Frame

ReadT(w) ==
    /\ Reading
    /\ Apply("readT", Len64(0, w), readT(Cur, mem, w, total_sz))
    /\ Frame

ReadIPv4 ==
    /\ Reading
    /\ Apply("read_ipv4", Len64(0, IPv4Size), read_ipv4(Cur, mem, total_sz))
    /\ Frame

ReadIPv6 ==
    /\ Reading
    /\ Apply("read_ipv6", Len64(0, IPv6Size), read_ipv6(Cur, mem, total_sz))
    /\ Frame

ReadHW ==
    /\ Reading
    /\ Apply("read_hw", Len64(0, HWSize), read_hw(Cur, mem, total_sz))
    /\ Frame

ReadBulk(n) ==
    /\ Reading
    /\ Apply("read_bulk", Len64(0, n), read_bulk(Cur, mem, n, total_sz))
    /\ Frame

\* pointer() that consumes the byte it points at.
InPointerConsuming ==
    /\ Reading
    /\ size_ > 0
    /\ Apply("pointer", Len64(0, 0),
             Outcome(in_skip(Cur, 1), mem, "ok", <<in_pointer(Cur)>>, FALSE))
    /\ Frame

InPointer ==
    /\ Reading
    /\ Observe("pointer", Len64(0, 0), <<in_pointer(Cur)>>)
    /\ Frame

InSize ==
    /\ Reading
    /\ Observe("size", Len64(0, 0), <<in_size(Cur)>>)
    /\ Frame

\* size(new_size): any new_size; the memory tracked ends at MemLen.
SetSize(m) ==
    /\ Reading
    /\ ~resized
    /\ m \in NewSizes
    /\ buffer_ + m <= MemLen
    /\ Apply("set_size", Len64(0, m), Outcome(set_size(Cur, m), mem, "ok", <<>>, FALSE))
    /\ resized' = TRUE
    /\ UNCHANGED <<kind, total_sz, ncalls, pc, sent, par, loop>>

Bool ==
    /\ Reading
    /\ Observe("bool", Len64(0, 0), BoolRet(to_bool(Cur)))
    /\ Frame

\* ---- OutputMemoryStream
OutSkip(n) ==
    LET r == Outcome(out_skip(Cur, n), mem, "ok", <<>>, FALSE)
    IN  /\ Writing
        /\ n <= size_
        /\ Budget(r)
        /\ Apply("skip", Len64(0, n), r)
        /\ UNCHANGED <<kind, total_sz, resized, pc, sent, par, loop>>

Write(w, b) ==
    LET r == write(Cur, mem, Bytes(b, w), total_sz)
    IN  /\ Writing
        /\ Budget(r)
        /\ Apply("write", Len64(0, w), r)
        /\ UNCHANGED <<kind, total_sz, resized, pc, sent, par, loop>>

WriteRange(d, b) ==
    LET r == write_range(Cur, mem, d, RangeElems(d, b), total_sz)
    IN  /\ Writing
        /\ Budget(r)
        /\ Apply("write_range", d, r)
        /\ UNCHANGED <<kind, total_sz, resized, pc, sent, par, loop>>

WritePtr(n, b) ==
    LET r == write_ptr(Cur, mem, Bytes(b, n), total_sz)
    IN  /\ Writing
        /\ Budget(r)
        /\ Apply("write_ptr", Len64(0, n), r)
        /\ UNCHANGED <<kind, total_sz, resized, pc, sent, par, loop>>

WriteIPv4(b) ==
    LET r == write_ipv4(Cur, mem, Bytes(b, IPv4Size), total_sz)
    IN  /\ Writing
        /\ Budget(r)
        /\ Apply("write_ipv4", Len64(0, IPv4Size), r)
        /\ UNCHANGED <<kind, total_sz, resized, pc, sent, par, loop>>

WriteIPv6(b) ==
    LET r == write_address(Cur, mem, Bytes(b, IPv6Size), total_sz)
    IN  /\ Writing
        /\ Budget(r)
        /\ Apply("write_ipv6", Len64(0, IPv6Size), r)
        /\ UNCHANGED <<kind, total_sz, resized, pc, sent, par, loop>>

WriteHW(b) ==
    LET r == write_address(Cur, mem, Bytes(b, HWSize), total_sz)
    IN  /\ Writing
        /\ Budget(r)
        /\ Apply("write_hw", Len64(0, HWSize), r)
        /\ UNCHANGED <<kind, total_sz, resized, pc, sent, par, loop>>

Fill(n, v) ==
    LET r == fill(Cur, mem, n, v, total_sz)
    IN  /\ Writing
        /\ Budget(r)
        /\ Apply("fill", Len64(0, n), r)
        /\ UNCHANGED <<kind, total_sz, resized, pc, sent, par, loop>>

OutPointer ==
    /\ Writing
    /\ Observe("pointer", Len64(0, 0), <<out_pointer(Cur)>>)
    /\ Frame

OutSize ==
    /\ Writing
    /\ Observe("size", Len64(0, 0), <<out_size(Cur)>>)
    /\ Frame

Next ==
    \/ \E n \in Counts : InSkip(n)
    \/ \E n \in 0..(MaxLen + 1) : CanRead(n)
    \/ \E w \in ScalarSizes : ReadRef(w)
    \/ \E w \in ScalarSizes : ReadT(w)
    \/ ReadIPv4
    \/ ReadIPv6
    \/ ReadHW
    \/ \E n \in Counts : ReadBulk(n)
    \/ InPointer
    \/ InSize
    \/ \E m \in 0..MemLen : SetSize(m)
    \/ Bool
    \/ \E n \in Counts : OutSkip(n)
    \/ \E w \in ScalarSizes, b \in Bases : Write(w, b)
    \/ \E d \in RangeLens, b \in Bases : WriteRange(d, b)
    \/ \E n \in Counts, b \in Bases : WritePtr(n, b)
    \/ \E b \in Bases : WriteIPv4(b)
    \/ \E b \in Bases : WriteIPv6(b)
    \/ \E b \in Bases : WriteHW(b)
    \/ \E n \in Counts, v \in FillValues : Fill(n, v)
    \/ OutPointer
    \/ OutSize

Spec == Init /\ [][Next]_vars

\* ------------------------------------------------------------ write, then read back
\* The program: position a WriteCursor, write one value, construct a ReadCursor
\* over the bytes written to (at the saved pointer), read one value.
RTBases == {0, 1, 127, 200, 255}
\* The values written: w bytes all different, or w equal bytes.
RTValues(w) == {Bytes(b, w) : b \in RTBases} \cup {[k \in 1..w |-> c] : c \in {0, 255}}

InitRT ==
    /\ kind = Output
    /\ total_sz \in BufLens
    /\ mem = DataMem
    /\ buffer_ = OutputMemoryStream(0, total_sz).buffer_
    /\ size_ = OutputMemoryStream(0, total_sz).size_
    /\ last = NoCall
    /\ resized = FALSE
    /\ ncalls = 0
    /\ pc = "seek"
    /\ sent = NoSent
    /\ par = NoPar
    /\ loop = NoLoop

RTSeek(n) ==
    /\ pc = "seek"
    /\ n <= size_
    /\ Apply("skip", Len64(0, n), Outcome(out_skip(Cur, n), mem, "ok", <<>>, FALSE))
    /\ pc' = "write"
    /\ UNCHANGED <<kind, total_sz, resized, ncalls, sent, par, loop>>

RTSend(op, value, r) ==
    /\ pc = "write"
    /\ Apply(op, Len64(0, Len(value)), r)
    /\ sent' = Sent(op, value, buffer_, r)
    /\ pc' = "construct"
    /\ UNCHANGED <<kind, total_sz, resized, ncalls, par, loop>>

RTWrite(value) == RTSend("write", value, write(Cur, mem, value, total_sz))

RTWriteIPv4(value) == RTSend("write_ipv4", value, write_ipv4(Cur, mem, value, total_sz))

RTWriteIPv6(value) == RTSend("write_ipv6", value, write_address(Cur, mem, value, total_sz))

RTWriteHW(value) == RTSend("write_hw", value, write_address(Cur, mem, value, total_sz))

\* InputMemoryStream(pointer, length) over the bytes from the saved pointer on.
RTConstruct ==
    /\ pc = "construct"
    /\ kind' = Input
    /\ buffer_' = InputMemoryStream(sent.at, total_sz - sent.at).buffer_
    /\ size_' = InputMemoryStream(sent.at, total_sz - sent.at).size_
    /\ last' = NoCall
    /\ pc' = "read"
    /\ UNCHANGED <<total_sz, mem, resized, ncalls, sent, par, loop>>

RTReceive(op, n, r) ==
    /\ pc = "read"
    /\ Apply(op, Len64(0, n), r)
    /\ pc' = "done"
    /\ UNCHANGED <<kind, total_sz, resized, ncalls, sent, par, loop>>

RTRead(w) == RTReceive("readT", w, readT(Cur, mem, w, total_sz))

RTReadRef(w) == RTReceive("read", w, read(Cur, mem, w, total_sz))

RTReadIPv4 == RTReceive("read_ipv4", IPv4Size, read_ipv4(Cur, mem, total_sz))

RTReadIPv6 == RTReceive("read_ipv6", IPv6Size, read_ipv6(Cur, mem, total_sz))

RTReadHW == RTReceive("read_hw", HWSize, read_hw(Cur, mem, total_sz))

NextRT ==
    \/ \E n \in Counts : RTSeek(n)
    \/ \E w \in ScalarSizes : \E v \in RTValues(w) : RTWrite(v)
    \/ \E v \in RTValues(IPv4Size) : RTWriteIPv4(v)
    \/ \E v \in RTValues(IPv6Size) : RTWriteIPv6(v)
    \/ \E v \in RTValues(HWSize) : RTWriteHW(v)
    \/ RTConstruct
    \/ \E w \in ScalarSizes : RTRead(w)
    \/ \E w \in ScalarSizes : RTReadRef(w)
    \/ RTReadIPv4
    \/ RTReadIPv6
    \/ RTReadHW

SpecRT == InitRT /\ [][NextRT]_vars

\* ------------------------------------------------------------ properties
ReadOps == {"read", "readT", "read_ipv4", "read_ipv6", "read_hw", "read_bulk"}
WriteOps == {"write", "write_range", "write_ptr", "write_ipv4", "write_ipv6", "write_hw", "fill"}
Observers == {"pointer", "size", "can_read", "bool"}

\* C1: with skip called within the remaining count and size(new_size) never
\* called, no checked read, write or fill touches a byte outside [0, total_sz).
C1_NoAccessOutsideBuffer == ~resized => ~last.oob

\* C2: a checked read of width w throws malformed_packet exactly when w is
\* greater than the remaining count at the call, and otherwise returns.
C2_ReadFailsIffShort ==
    [][last'.op \in ReadOps =>
          /\ last'.status \in {"ok", "malformed_packet"}
          /\ (last'.status = "malformed_packet") <=> (last'.n.lo > size_)]_vars

\* C2 witness: reads of 16 bytes were tried with 16 and with fewer bytes left.
C2_Witness ==
    /\ last.op = "read_ipv6"
    /\ last.status = "malformed_packet"
    /\ size_ = IPv6Size - 1
    /\ buffer_ > 0

\* C3: a write or fill that asks for more bytes than the remaining capacity
\* throws serialization_error and leaves every byte of memory as it was.
C3_FailedWriteLeavesBuffer ==
    [][(last'.op \in WriteOps /\ Exceeds(last'.n, size_)) =>
          (last'.status = "serialization_error" /\ mem' = mem)]_vars

\* C4: on a ReadCursor the remaining count never exceeds the buffer length
\* minus the bytes consumed, and is never negative.
C4_ReadRemainingWithinBuffer ==
    kind = Input => (size_ >= 0 /\ size_ <= total_sz - buffer_)

\* C5: on a WriteCursor the remaining capacity never exceeds the buffer length
\* minus the bytes produced, and is never negative.
C5_WriteRemainingWithinBuffer ==
    kind = Output => (size_ >= 0 /\ size_ <= total_sz - buffer_)

\* C5 witness: a WriteCursor that has skipped and then written to its last byte.
C5_Witness ==
    /\ kind = Output
    /\ pc = "-"
    /\ ncalls = MaxCalls
    /\ last.op \in WriteOps
    /\ last.status = "ok"
    /\ size_ = 0
    /\ total_sz = MaxLen

\* The program has written its value (with whatever outcome).
Written == pc \in {"construct", "read", "done"}

\* C6: a scalar written into a buffer with room for it is written, and a read
\* of the same width over the same bytes returns the bytes that were written,
\* in the same order.
C6_ScalarRoundTrip ==
    /\ (Written /\ sent.op = "write" /\ Len(sent.value) <= total_sz - sent.at)
          => sent.status = "ok"
    /\ (pc = "done" /\ sent.op = "write" /\ sent.status = "ok"
            /\ last.op \in {"read", "readT"} /\ last.n.lo = Len(sent.value))
          => (last.status = "ok" /\ last.ret = sent.value)

\* C6 witness: an 8-byte value of 8 different bytes written after a skip and
\* read back.
C6_Witness ==
    /\ pc = "done"
    /\ sent.op = "write"
    /\ sent.at > 0
    /\ sent.value = Bytes(200, 8)
    /\ last.op = "readT"
    /\ last.status = "ok"
    /\ last.n.lo = 8

\* The read that takes back what a write put.
ReadOf(op) ==
    CASE op = "write_ipv4" -> "read_ipv4"
      [] op = "write_ipv6" -> "read_ipv6"
      [] op = "write_hw" -> "read_hw"
      [] OTHER -> "none"
AddressOps == {"write_ipv4", "write_ipv6", "write_hw"}

\* C7: an address written into a buffer with room for it is written, a read of
\* the same kind of address over the same bytes returns an equal address, and
\* the WriteCursor and the ReadCursor each advance by the address's width.
C7_AddressRoundTrip ==
    /\ (Written /\ sent.op \in AddressOps /\ Len(sent.value) <= total_sz - sent.at)
          => (sent.status = "ok" /\ sent.adv = Len(sent.value))
    /\ (pc = "done" /\ sent.op \in AddressOps /\ sent.status = "ok"
            /\ last.op = ReadOf(sent.op))
          => /\ last.status = "ok"
             /\ last.ret = sent.value
             /\ buffer_ - sent.at = Len(sent.value)
             /\ size_ = total_sz - sent.at - Len(sent.value)

\* C7 witness: an IPv6 address of 16 different bytes written and read back.
C7_Witness ==
    /\ pc = "done"
    /\ sent.op = "write_ipv6"
    /\ sent.value = Bytes(127, IPv6Size)
    /\ last.op = "read_ipv6"
    /\ last.status = "ok"

\* C8: can_read(n) returns true exactly when n is at most the remaining count
\* (on a cursor that has consumed nothing: when n is at most the buffer's
\* length), and changes neither the position nor the remaining count.
C8_CanRead ==
    [][last'.op = "can_read" =>
          /\ last'.ret = BoolRet(last'.n.lo <= size_)
          /\ (buffer_ = 0 /\ ~resized) => last'.ret = BoolRet(last'.n.lo <= total_sz)
          /\ buffer_' = buffer_
          /\ size_' = size_]_vars

\* C8 witness: can_read refused one byte more than remains, after a read.
C8_Witness ==
    /\ last.op = "can_read"
    /\ last.ret = <<0>>
    /\ last.n.lo = size_ + 1
    /\ buffer_ > 0
    /\ size_ > 0

\* C9: pointer(), size(), can_read(n) and the boolean conversion leave the
\* position, the remaining count and the memory as they were; pointer()
\* returns the position, so that two calls in a row return the same address.
C9_ObserversChangeNothing ==
    [][last'.op \in Observers =>
          /\ buffer_' = buffer_
          /\ size_' = size_
          /\ mem' = mem
          /\ last'.op = "pointer" => last'.ret = <<buffer_>>
          /\ (last.op = "pointer" /\ last'.op = "pointer") => last'.ret = last.ret]_vars

\* C9 witness: pointer() called on a WriteCursor that has written.
C9_Witness ==
    /\ kind = Output
    /\ last.op = "pointer"
    /\ last.ret = <<buffer_>>
    /\ buffer_ > 0
    /\ mem # DataMem

ErrorOf(k) == IF k = Input THEN "malformed_packet" ELSE "serialization_error"

\* C10: over a zero-length buffer the ReadCursor converts to false, every
\* checked call of non-zero size throws its cursor's error, and every call of
\* size zero returns and changes neither the cursor nor the memory.
C10_ZeroLengthBuffer ==
    [][(total_sz = 0 /\ ~resized') =>
          /\ last'.op = "bool" => last'.ret = <<0>>
          /\ (last'.op \in ReadOps \cup WriteOps /\ IsZero(last'.n)) =>
                /\ last'.status = "ok"
                /\ buffer_' = buffer_ /\ size_' = size_ /\ mem' = mem
          /\ (last'.op \in ReadOps \cup WriteOps /\ ~IsZero(last'.n)) =>
                last'.status = ErrorOf(kind)]_vars

\* The reads that copy raw bytes: read<T>(), read(T&), read(void*, n).
RawReads == {"read", "readT", "read_bulk"}
\* The bytes B[p .. p+w-1] of the buffer as it was at construction.
Slice(p, w) == [k \in 1..w |-> DataMem[p + k - 1]]

\* C11 as stated: each successful raw read of width w at position p returns
\* B[p .. p+w-1] in buffer order, advances the position by w and decreases the
\* remaining count by w; once the reads have consumed the whole buffer, a
\* further read of any size throws malformed_packet.
C11_SequentialConsumption ==
    [][(kind = Input /\ ~resized') =>
          /\ (last'.op \in RawReads /\ last'.status = "ok") =>
                /\ last'.ret = Slice(buffer_, last'.n.lo)
                /\ buffer_' = buffer_ + last'.n.lo
                /\ size_' = size_ - last'.n.lo
          /\ (last.op \in ReadOps /\ last.status = "ok" /\ buffer_ = total_sz
                  /\ last'.op \in ReadOps) =>
                last'.status = "malformed_packet"]_vars

\* C11 amended: as C11, the further read being of any size other than zero.
C11_SequentialConsumptionNonZero ==
    [][(kind = Input /\ ~resized') =>
          /\ (last'.op \in RawReads /\ last'.status = "ok") =>
                /\ last'.ret = Slice(buffer_, last'.n.lo)
                /\ buffer_' = buffer_ + last'.n.lo
                /\ size_' = size_ - last'.n.lo
          /\ (last.op \in ReadOps /\ last.status = "ok" /\ buffer_ = total_sz
                  /\ last'.op \in ReadOps /\ last'.n.lo > 0) =>
                last'.status = "malformed_packet"]_vars

\* C11 witness: a 6-byte buffer consumed to its end, then a read of one more
\* byte refused.
C11_Witness ==
    /\ kind = Input
    /\ ~resized
    /\ total_sz = HWSize
    /\ buffer_ = total_sz
    /\ size_ = 0
    /\ last.op = "read_bulk"
    /\ last.n.lo = 1
    /\ last.status = "malformed_packet"

\* ------------------------------------------------------------ two threads
\* Two cursors over adjacent, disjoint regions of mem, each driven by its own
\* thread: thread 1 over [0, ParLen), thread 2 over [ParLen, 2 * ParLen).
\* A call takes two steps of its thread: the check and the copy (ParBegin),
\* then the update of its cursor's members by skip (ParEnd); steps of the two
\* threads interleave freely.  par.solo[t] is the reference run: thread t's
\* calls alone, on its own copy of the memory.
\* Length of each thread's region.
ParLen == 2
\* Calls made by each thread.
MaxParCalls == 2

Threads == {1, 2}
Other(t) == 3 - t
RegionBase(t) == (t - 1) * ParLen
RegionEnd(t) == t * ParLen
Region(t) == RegionBase(t)..(RegionEnd(t) - 1)

\* The calls a thread makes on a cursor c of class k.
ParCalls(k, c) ==
    IF k = Input
    THEN {[op |-> "skip", n |-> Len64(0, 1)],
          [op |-> "read", n |-> Len64(0, 1)],
          [op |-> "read", n |-> Len64(0, 2)],
          [op |-> "read_bulk", n |-> Len64(0, 0)],
          [op |-> "set_size", n |-> Len64(0, c.size_ + 1)]}
    ELSE {[op |-> "skip", n |-> Len64(0, 1)],
          [op |-> "write", n |-> Len64(0, 1)],
          [op |-> "write", n |-> Len64(0, 2)],
          [op |-> "write_range", n |-> Len64(0, 1)],
          [op |-> "write_range", n |-> Len64(1, 0)],
          [op |-> "fill", n |-> Len64(0, 1)]}

\* A call may be made: skip within the remaining count.
ParAllowed(c, call) == call.op = "skip" => call.n.lo <= c.size_

\* The outcome of a call on cursor c of class k with the memory m; thread t's
\* payload starts at the byte 100 * t.
ParOutcome(t, k, c, m, call) ==
    LET L == RegionEnd(t)
        b == 100 * t
    IN  CASE call.op = "skip" /\ k = Input ->
                Outcome(in_skip(c, call.n.lo), m, "ok", <<>>, FALSE)
          [] call.op = "skip" /\ k = Output ->
                Outcome(out_skip(c, call.n.lo), m, "ok", <<>>, FALSE)
          [] call.op = "read" -> read(c, m, call.n.lo, L)
          [] call.op = "read_bulk" -> read_bulk(c, m, call.n.lo, L)
          [] call.op = "set_size" ->
                Outcome(set_size(c, call.n.lo), m, "ok", <<>>, FALSE)
          [] call.op = "write" -> write(c, m, Bytes(b, call.n.lo), L)
          [] call.op = "write_range" ->
                write_range(c, m, call.n, RangeElems(call.n, b), L)
          [] call.op = "fill" -> fill(c, m, call.n.lo, b, L)

\* The call reads or writes a byte of the other thread's region: the bytes it
\* touches are [c.buffer_, c.buffer_ + call.n).
Trespass(t, c, call, r) ==
    /\ call.op \in ReadOps \cup WriteOps
    /\ r.status = "ok"
    /\ ~IsZero(call.n)
    /\ c.buffer_ < RegionEnd(Other(t))
    /\ (call.n.hi > 0 \/ c.buffer_ + call.n.lo > RegionBase(Other(t)))

Idle == [c |-> Cursor(0, 0), call |-> NoCall]

InitPar ==
    /\ kind = Input
    /\ total_sz = ParLen
    /\ mem = DataMem
    /\ buffer_ = 0
    /\ size_ = 0
    /\ last = NoCall
    /\ resized = FALSE
    /\ ncalls = 0
    /\ pc = "par"
    /\ sent = NoSent
    /\ loop = NoLoop
    /\ \E k1, k2 \in {Input, Output} :
          LET ks == <<k1, k2>>
              cs == [t \in Threads |->
                        IF ks[t] = Input THEN InputMemoryStream(RegionBase(t), ParLen)
                                         ELSE OutputMemoryStream(RegionBase(t), ParLen)]
          IN  par = [kind |-> ks,
                     c |-> cs,
                     last |-> [t \in Threads |-> NoCall],
                     busy |-> [t \in Threads |-> FALSE],
                     pend |-> [t \in Threads |-> Idle],
                     n |-> [t \in Threads |-> 0],
                     tres |-> [t \in Threads |-> FALSE],
                     solo |-> [t \in Threads |->
                                  [c |-> cs[t], mem |-> DataMem, last |-> NoCall]]]

\* Thread t starts a call: the check, and the copy if the check passes.
ParBegin(t, call) ==
    LET k == par.kind[t]
        c == par.c[t]
        r == ParOutcome(t, k, c, mem, call)
        sr == ParOutcome(t, k, par.solo[t].c, par.solo[t].mem, call)
    IN  /\ pc = "par"
        /\ ~par.busy[t]
        /\ par.n[t] < MaxParCalls
        /\ call \in ParCalls(k, c)
        /\ ParAllowed(c, call)
        /\ call.op = "set_size" => c.buffer_ + call.n.lo <= 2 * ParLen
        /\ mem' = r.mem
        /\ par' = [par EXCEPT
                      !.busy[t] = TRUE,
                      !.pend[t] = [c |-> r.c,
                                   call |-> Call(call.op, call.n, r.status, r.ret, r.oob)],
                      !.n[t] = @ + 1,
                      !.tres[t] = @ \/ Trespass(t, c, call, r),
                      !.solo[t] = [c |-> sr.c, mem |-> sr.mem,
                                   last |-> Call(call.op, call.n, sr.status, sr.ret, sr.oob)]]
        /\ UNCHANGED <<kind, total_sz, buffer_, size_, last, resized, ncalls, pc, sent, loop>>

\* Thread t finishes its call: the members are updated, the call returns.
ParEnd(t) ==
    /\ pc = "par"
    /\ par.busy[t]
    /\ par' = [par EXCEPT
                  !.busy[t] = FALSE,
                  !.c[t] = par.pend[t].c,
                  !.last[t] = par.pend[t].call,
                  !.pend[t] = Idle]
    /\ UNCHANGED <<kind, total_sz, mem, buffer_, size_, last, resized, ncalls, pc, sent, loop>>

\* Every call any cursor of the program may be asked to make.
AllParCalls ==
    {[op |-> o, n |-> Len64(h, l)] :
        o \in {"skip", "read", "read_bulk", "set_size", "write", "write_range", "fill"},
        h \in {0, 1}, l \in 0..(2 * ParLen)}

NextPar ==
    \/ \E t \in Threads, call \in AllParCalls : ParBegin(t, call)
    \/ \E t \in Threads : ParEnd(t)

SpecPar == InitPar /\ [][NextPar]_vars

\* C12: in every interleaving, neither cursor reads or writes a byte of the
\* other's region, and whenever a thread is between calls its cursor's position
\* and remaining count, the outcome and value of its last call, and the
\* contents of its own region are those of the thread's calls run alone.
C12_DisjointCursorsIndependent ==
    pc = "par" =>
        \A t \in Threads :
            /\ ~par.tres[t]
            /\ ~par.busy[t] =>
                  /\ par.c[t] = par.solo[t].c
                  /\ par.last[t] = par.solo[t].last
                  /\ \A i \in Region(t) : mem[i] = par.solo[t].mem[i]

\* The writes of a value or a range (every write but fill).
PlainWrites == WriteOps \ {"fill"}
\* The bytes a write stores: the value's or the range's bytes; for an IPv4
\* address the bytes of its uint32_t conversion.
SourceBytes(op, b, n) == IF op = "write_ipv4" THEN IPv4ToUint32(Bytes(b, n)) ELSE Bytes(b, n)
\* The memory m with the bytes src stored from p on, everything else as in m.
Stored(m, p, src) ==
    [i \in DOMAIN m |-> IF i >= p /\ i < p + Len(src) THEN src[i - p + 1] ELSE m[i]]

\* C13: a successful write of n <= remaining bytes at position p stores the
\* source bytes in order in [p, p+n), leaves every other byte as it was,
\* advances the position by n and decreases the remaining capacity by n.
C13_WriteEffect ==
    [][(kind = Output /\ last'.op \in PlainWrites /\ last'.status = "ok"
            /\ ~Exceeds(last'.n, size_)) =>
          /\ \E b \in Bases : mem' = Stored(mem, buffer_, SourceBytes(last'.op, b, last'.n.lo))
          /\ buffer_' = buffer_ + last'.n.lo
          /\ size_' = size_ - last'.n.lo]_vars

\* C13 witness: a range of 3 bytes written after a skip.
C13_Witness ==
    /\ kind = Output
    /\ last.op = "write_range"
    /\ last.status = "ok"
    /\ last.n = Len64(0, MaxCount)
    /\ buffer_ > MaxCount
    /\ mem # DataMem

\* C14: fill(n, value) with n <= remaining sets the n bytes from the position
\* on to value, leaves every other byte as it was, advances the position by n
\* and decreases the remaining capacity by n; with n > remaining it throws
\* serialization_error.
C14_FillEffect ==
    [][(kind = Output /\ last'.op = "fill") =>
          IF last'.n.lo <= size_
          THEN /\ last'.status = "ok"
               /\ \E v \in FillValues :
                     mem' = Stored(mem, buffer_, [k \in 1..last'.n.lo |-> v])
               /\ buffer_' = buffer_ + last'.n.lo
               /\ size_' = size_ - last'.n.lo
          ELSE last'.status = "serialization_error"]_vars

\* C14 witness: 3 bytes filled after a skip.
C14_Witness ==
    /\ kind = Output
    /\ last.op = "fill"
    /\ last.status = "ok"
    /\ last.n.lo = MaxCount
    /\ buffer_ > MaxCount
    /\ mem # DataMem

\* C15: write(begin, end) over a range of d bytes with r bytes remaining throws
\* serialization_error and copies nothing when d > r, and otherwise copies
\* exactly d bytes and advances by exactly d, whatever the size of d.
C15_RangeWriteLength ==
    [][(kind = Output /\ last'.op = "write_range") =>
          IF Exceeds(last'.n, size_)
          THEN /\ last'.status = "serialization_error"
               /\ mem' = mem
               /\ buffer_' = buffer_ /\ size_' = size_
          ELSE /\ last'.status = "ok"
               /\ \E b \in Bases : mem' = Stored(mem, buffer_, Bytes(b, last'.n.lo))
               /\ buffer_' = buffer_ + last'.n.lo
               /\ size_' = size_ - last'.n.lo]_vars

\* The ReadCursor was truncated: size(m) was called with m at most the
\* remaining count, so the window [buffer_, buffer_ + size_) ends inside the
\* buffer.
Truncated == kind = Input /\ resized /\ buffer_ + size_ <= total_sz

\* C16: size(new_size) sets the remaining count to new_size and leaves the
\* position and the memory as they were; on a cursor truncated to m bytes the
\* end of the window stays where size(m) put it and the remaining count stays
\* non-negative (so the reads that succeed total at most m), size() returns the
\* remaining count, can_read(n) is true exactly when n is at most it, and a read
\* wider than it throws malformed_packet, although the buffer holds more.
C16_SizeTruncates ==
    [][kind = Input =>
          /\ last'.op = "set_size" =>
                /\ last'.status = "ok"
                /\ size_' = last'.n.lo
                /\ buffer_' = buffer_
                /\ mem' = mem
          /\ (Truncated /\ last.op = "set_size" /\ last'.op = "size") =>
                last'.ret = <<last.n.lo>>
          /\ Truncated =>
                /\ buffer_' + size_' = buffer_ + size_
                /\ size_' >= 0
                /\ last'.op = "size" => last'.ret = <<size_>>
                /\ last'.op = "can_read" => last'.ret = BoolRet(last'.n.lo <= size_)
                /\ last'.op \in ReadOps =>
                      IF last'.n.lo > size_
                      THEN /\ last'.status = "malformed_packet"
                           /\ buffer_' = buffer_
                      ELSE /\ last'.status = "ok"
                           /\ buffer_' = buffer_ + last'.n.lo]_vars

\* C16 witness: a 16-byte buffer truncated, read up to the end of the window,
\* then a read refused that the bytes left in the buffer would have served.
C16_Witness ==
    /\ Truncated
    /\ total_sz = MaxLen
    /\ buffer_ > 0
    /\ size_ = 0
    /\ last.op \in ReadOps
    /\ last.status = "malformed_packet"
    /\ buffer_ + last.n.lo <= total_sz

\* The calls that move the cursor: skip and the checked reads, writes and fill.
Movers == ReadOps \cup WriteOps \cup {"skip"}

\* C17: with size(new_size) never called, the position plus the remaining
\* count equals the buffer's length before and after every call, and each
\* call of width n that returns moves exactly n from the remaining count to
\* the position.
C17_ConservationOfExtent ==
    [][~resized' =>
          /\ buffer_ + size_ = total_sz
          /\ buffer_' + size_' = total_sz
          /\ (last'.op \in Movers /\ last'.status = "ok") =>
                /\ last'.n.hi = 0
                /\ buffer_' = buffer_ + last'.n.lo
                /\ size_' = size_ - last'.n.lo]_vars

\* The checked calls: the reads, the writes and fill.
Checked == ReadOps \cup WriteOps

\* C18: a checked call that throws leaves the position and the remaining count
\* as they were and delivers no value; the next checked call whose width fits
\* in the remaining count returns, having read or written at that same
\* position and advanced from it.
C18_FailureLeavesCursor ==
    [][/\ (last'.op \in Checked /\ last'.status # "ok") =>
             /\ last'.status = ErrorOf(kind)
             /\ buffer_' = buffer_
             /\ size_' = size_
             /\ last'.ret = <<>>
       /\ (last.op \in Checked /\ last.status # "ok"
               /\ last'.op \in Checked /\ ~Exceeds(last'.n, size_)) =>
             /\ last'.status = "ok"
             /\ buffer_' = buffer_ + last'.n.lo
             /\ size_' = size_ - last'.n.lo
             /\ last'.op \in RawReads => last'.ret = [k \in 1..last'.n.lo |-> mem[buffer_ + k - 1]]
             /\ last'.op \in PlainWrites =>
                   \E b \in Bases :
                       mem' = Stored(mem, buffer_, SourceBytes(last'.op, b, last'.n.lo))]_vars

\* C18 witness: a fill wider than what remains, refused by a cursor that has
\* advanced and still has room.
C18_Witness ==
    /\ kind = Output
    /\ last.op = "fill"
    /\ last.status = "serialization_error"
    /\ buffer_ > 0
    /\ size_ > 0

\* ------------------------------------------------------------ parsing loop
\* while (stream) { stream.read(record); } over a buffer of total_sz bytes,
\* the record being loop.w bytes wide; malformed_packet leaves the loop.
LoopWidths == (1..MaxCount) \cup ScalarSizes

InitLoop ==
    /\ kind = Input
    /\ total_sz \in 0..MaxLen
    /\ mem = DataMem
    /\ buffer_ = InputMemoryStream(0, total_sz).buffer_
    /\ size_ = InputMemoryStream(0, total_sz).size_
    /\ last = NoCall
    /\ resized = FALSE
    /\ ncalls = 0
    /\ pc = "test"
    /\ sent = NoSent
    /\ par = NoPar
    /\ loop \in [w : LoopWidths, iters : {0}]

\* The loop condition: operator bool.
LoopTest ==
    /\ pc = "test"
    /\ Observe("bool", Len64(0, 0), BoolRet(to_bool(Cur)))
    /\ pc' = IF to_bool(Cur) THEN "read" ELSE "done"
    /\ UNCHANGED <<kind, total_sz, resized, ncalls, sent, par, loop>>

\* The loop body: read(T&) of one record; an exception ends the loop.
LoopRead ==
    LET r == read(Cur, mem, loop.w, total_sz)
    IN  /\ pc = "read"
        /\ Apply("read", Len64(0, loop.w), r)
        /\ loop' = [loop EXCEPT !.iters = @ + 1]
        /\ pc' = IF r.status = "ok" THEN "test" ELSE "failed"
        /\ UNCHANGED <<kind, total_sz, resized, ncalls, sent, par>>

NextLoop == LoopTest \/ LoopRead

\* The loop runs on as long as it has a step to take.
SpecLoop == InitLoop /\ [][NextLoop]_vars /\ WF_vars(NextLoop)

\* ceil(L / w)
CeilDiv(L, w) == (L + w - 1) \div w

\* The loop has ended: by the cursor turning false with nothing left, which
\* happens when w divides total_sz, or by malformed_packet on a last record
\* shorter than w, when it does not; and in at most ceil(total_sz / w) rounds.
LoopEnded ==
    /\ pc \in {"done", "failed"}
    /\ loop.iters <= CeilDiv(total_sz, loop.w)
    /\ pc = "done" <=> total_sz % loop.w = 0
    /\ pc = "done" =>
          /\ size_ = 0
          /\ last.op = "bool" /\ last.ret = <<0>>
          /\ loop.iters = total_sz \div loop.w
    /\ pc = "failed" =>
          /\ last.op = "read" /\ last.status = "malformed_packet"
          /\ size_ > 0 /\ size_ < loop.w
          /\ size_ = total_sz % loop.w

\* C19: the loop 'while the cursor is true, read one record of w bytes' over
\* a buffer of L bytes ends, after at most ceil(L / w) iterations, with
\* nothing remaining (exactly when w divides L) or with malformed_packet on
\* the last, short record; at every step the cursor is true exactly when the
\* remaining count is positive, and no more than ceil(L / w) iterations begin.
C19_LoopTerminates ==
    /\ [](/\ loop.iters <= CeilDiv(total_sz, loop.w)
          /\ last.op = "bool" => last.ret = BoolRet(size_ > 0))
    /\ <>[]LoopEnded

\* C19 witness: the longest buffer read in records of MaxCount bytes, the
\* loop left by malformed_packet on the short record at the end.
C19_Witness ==
    /\ pc = "failed"
    /\ total_sz = MaxLen
    /\ loop.w = MaxCount
    /\ loop.iters = MaxLen \div MaxCount + 1
    /\ size_ = MaxLen % MaxCount
    /\ size_ > 0

====
